---------------------------- MODULE Spec2Model ----------------------------
(***************************************************************************)
(* Dijkstra's shortest path search of src/main.rs: dijkstra,               *)
(* dijkstra_progression, get_next_node, dijkstra_backtrack and             *)
(* dijkstra_backtrack_recursive.  One action per call of a recursive       *)
(* function (one level of the tail recursion).                             *)
(***************************************************************************)
EXTENDS Integers, Sequences, FiniteSets, TLC

(***************************************************************************)
(* Inputs.                                                                 *)
(***************************************************************************)

\* The node names of main.
Nodes == {"A", "B", "C", "D"}

\* Width in bits of the unsigned type of the edge costs and of the
\* progression.  The code's u32 has 32 bits; the model keeps the wrap-around
\* arithmetic at this narrower width.
WordBits == 8

\* Largest value of the cost type (u32::MAX at the code's width).
MaxU32 == 2^WordBits - 1

\* Bound of the enumerated graphs: number of edges plus the sum of the costs.
MaxSize == 3

\* Bound of the recursion depth of dijkstra_backtrack_recursive: the call
\* stack of the process is finite.
MaxDepth == 6

\* HashMap::new().
EmptyMap == [x \in {} |-> 0]

\* Option<T>.
None == [some |-> FALSE]
Some(x) == [some |-> TRUE, val |-> x]

\* Every map from a set of at most b - (sum of the costs) edges out of P to
\* costs: the edges of a graph of size at most b.
RECURSIVE EdgeMaps(_, _)
EdgeMaps(P, b) ==
    IF P = {} \/ b = 0
    THEN {EmptyMap}
    ELSE LET e == CHOOSE x \in P : TRUE
             rest == P \ {e}
         IN  EdgeMaps(rest, b)
             \cup UNION {{(e :> w) @@ m : m \in EdgeMaps(rest, b - 1 - w)}
                         : w \in 0..(b - 1)}

\* HashMap<&str, HashMap<&str, u32>> built from a map of edges to costs: a
\* node is a key when it has an outgoing edge.
GraphOf(m) ==
    [u \in {e[1] : e \in DOMAIN m} |->
        [v \in {e[2] : e \in {x \in DOMAIN m : x[1] = u}} |-> m[<<u, v>>]]]

\* All graphs over Nodes of size at most MaxSize (self-loops, cycles and
\* cost 0 included).
SmallGraphs == {GraphOf(m) : m \in EdgeMaps(Nodes \X Nodes, MaxSize)}

\* The graph main builds: A -> B -> C -> D -> A, every cost 1.
CycleGraph ==
    [A |-> [B |-> 1], B |-> [C |-> 1], C |-> [D |-> 1], D |-> [A |-> 1]]

\* A direct edge that costs more than a route of two edges.
TieGraph == [A |-> [B |-> 5, C |-> 1], C |-> [B |-> 1]]

\* Every node is a key, B and D with an empty adjacency map.
TerminalGraph ==
    [A |-> [B |-> 1, C |-> 1, D |-> 3], B |-> EmptyMap, C |-> [D |-> 1],
     D |-> EmptyMap]

\* Costs near the top of the u32 range.
OverflowChain == [A |-> [B |-> MaxU32], B |-> [C |-> 1]]
OverflowCycle ==
    [A |-> [B |-> 1], B |-> [C |-> MaxU32 - 1], C |-> [B |-> 1, D |-> 0]]
OverflowTie ==
    [A |-> [B |-> 5, C |-> MaxU32], B |-> [D |-> MaxU32 - 5], C |-> [B |-> 3]]

Graphs ==
    SmallGraphs \cup {CycleGraph, TieGraph, TerminalGraph,
                      OverflowChain, OverflowCycle, OverflowTie}

(***************************************************************************)
(* State.                                                                  *)
(***************************************************************************)

VARIABLES
    graph,          \* the graph given to dijkstra
    source,         \* the source given to dijkstra
    destination,    \* the destination given to dijkstra
    progression,    \* HashMap<&str, u32>: tentative distances
    origin,         \* HashMap<&str, &str>: predecessor of each reached node
    visited,        \* HashSet<&str>
    pc,             \* "progression", "backtrack", "returned" or "panicked"
    location,       \* argument of dijkstra_backtrack_recursive
    path,           \* the Vec dijkstra_backtrack_recursive pushes to
    result,         \* what dijkstra returned: None or Some(path)
    selected,       \* history: the nodes get_next_node returned, in order
    previous        \* history: what the invocation before this one returned

vars == <<graph, source, destination, progression, origin, visited, pc,
          location, path, result, selected, previous>>

inputs == <<graph, source, destination>>

\* No invocation came before.
NoRun == [some |-> FALSE, ran |-> FALSE]

(***************************************************************************)
(* Helpers of the code.                                                    *)
(***************************************************************************)

\* HashMap::insert / an entry set to v.
Insert(m, k, v) == [x \in DOMAIN m \cup {k} |-> IF x = k THEN v ELSE m[x]]

\* The orders in which the iterator of a HashMap or HashSet with keys S may
\* yield them: the code fixes none.
Orders(S) ==
    {f \in [1..Cardinality(S) -> S] : \A i, j \in DOMAIN f : f[i] = f[j] => i = j}

\* graph.get(&next_node).unwrap_or(&HashMap::new())
Adjacent(g, n) == IF n \in DOMAIN g THEN g[n] ELSE EmptyMap

\* current_progression + cost as the release build computes it (wrapping).
AddU32(a, b) == (a + b) % (MaxU32 + 1)

\* current_progression + cost overflows: the debug build panics there.
Overflows(a, b) == a + b > MaxU32

\* Closer with the comparison turned round.
Closer_Greater(prog, first, second) ==
    IF prog[first] >= prog[second] THEN first ELSE second

\* The closure given to reduce: the entry that is kept.
Closer(prog, first, second) ==
    IF prog[first] <= prog[second] THEN first ELSE second

\* Iterator::reduce over the entries left by the filter.
RECURSIVE Reduce(_, _, _)
Reduce(prog, acc, rest) ==
    IF rest = << >> THEN acc
    ELSE Reduce(prog, Closer(prog, acc, Head(rest)), Tail(rest))

\* Unvisited without the filter.
Unvisited_NoFilter(order, vis) == order

\* The filter of get_next_node: the entries not yet visited.
Unvisited(order, vis) == SelectSeq(order, LAMBDA n : n \notin vis)

\* get_next_node, the map iterated in the given order.
get_next_node(order, prog, vis) ==
    LET left == Unvisited(order, vis)
    IN  IF left = << >> THEN None
        ELSE LET n == Reduce(prog, Head(left), Tail(left))
             IN  Some(<<n, prog[n]>>)

\* RelaxEdge without the origin.insert of the or_insert_with.
RelaxEdge_NoFirstOrigin(st, next_node, current_progression, node, cost) ==
    LET candidate == AddU32(current_progression, cost)
    IN  IF node \in DOMAIN st.progression
        THEN IF st.progression[node] > candidate
             THEN [progression |-> Insert(st.progression, node, candidate),
                   origin |-> Insert(st.origin, node, next_node)]
             ELSE st
        ELSE [progression |-> Insert(st.progression, node, candidate),
              origin |-> st.origin]

\* RelaxEdge with >= in place of > in the and_modify.
RelaxEdge_NonStrict(st, next_node, current_progression, node, cost) ==
    IF node \in DOMAIN st.progression
          /\ st.progression[node] < AddU32(current_progression, cost)
    THEN st
    ELSE [progression |-> Insert(st.progression, node,
                                 AddU32(current_progression, cost)),
          origin |-> Insert(st.origin, node, next_node)]

\* RelaxEdge without the and_modify: a distance once set is kept.
RelaxEdge_NoModify(st, next_node, current_progression, node, cost) ==
    IF node \in DOMAIN st.progression
    THEN st
    ELSE [progression |-> Insert(st.progression, node,
                                 AddU32(current_progression, cost)),
          origin |-> Insert(st.origin, node, next_node)]

\* The body of the for loop of dijkstra_progression for one adjacent node:
\* and_modify with strict improvement, or_insert_with otherwise.
RelaxEdge(st, next_node, current_progression, node, cost) ==
    LET candidate == AddU32(current_progression, cost)
    IN  IF node \in DOMAIN st.progression
        THEN IF st.progression[node] > candidate
             THEN [progression |-> Insert(st.progression, node, candidate),
                   origin |-> Insert(st.origin, node, next_node)]
             ELSE st
        ELSE [progression |-> Insert(st.progression, node, candidate),
              origin |-> Insert(st.origin, node, next_node)]

\* The for loop of dijkstra_progression, the adjacency map iterated in the
\* given order.
RECURSIVE Relax(_, _, _, _, _)
Relax(st, next_node, current_progression, adjacent, order) ==
    IF order = << >> THEN st
    ELSE Relax(RelaxEdge(st, next_node, current_progression,
                         Head(order), adjacent[Head(order)]),
               next_node, current_progression, adjacent, Tail(order))

\* Reverse without the .rev().
Reverse_Forgotten(s) == s

\* Vec::into_iter().rev().collect()
Reverse(s) == [i \in 1..Len(s) |-> s[Len(s) + 1 - i]]

(***************************************************************************)
(* dijkstra: the maps as created, the source at progression 0.             *)
(***************************************************************************)

\* Start without progression.insert(source, 0).
Start_NoSource ==
    /\ progression = EmptyMap
    /\ origin = EmptyMap
    /\ visited = {}
    /\ pc = "progression"
    /\ location = source
    /\ path = << >>
    /\ result = None
    /\ selected = << >>

Start ==
    /\ progression = Insert(EmptyMap, source, 0)
    /\ origin = EmptyMap
    /\ visited = {}
    /\ pc = "progression"
    /\ location = source
    /\ path = << >>
    /\ result = None
    /\ selected = << >>

Init ==
    /\ graph \in Graphs
    /\ source \in Nodes
    /\ destination \in Nodes
    /\ previous = NoRun
    /\ Start

(***************************************************************************)
(* dijkstra_progression: one call.                                         *)
(***************************************************************************)

\* get_next_node returns None: the ? operator returns None, and_then passes
\* it on and dijkstra returns None.
Exhausted ==
    /\ pc = "progression"
    /\ \E order \in Orders(DOMAIN progression) :
          get_next_node(order, progression, visited) = None
    /\ pc' = "returned"
    /\ result' = None
    /\ UNCHANGED <<inputs, progression, origin, visited, location, path,
                   selected, previous>>

\* next_node == destination: Some(destination), and dijkstra calls
\* dijkstra_backtrack, which calls dijkstra_backtrack_recursive with the
\* destination and an empty Vec.
Reached ==
    /\ pc = "progression"
    /\ \E order \in Orders(DOMAIN progression) :
          LET next == get_next_node(order, progression, visited)
          IN  /\ next # None
              /\ next.val[1] = destination
              /\ selected' = Append(selected, next.val[1])
    /\ pc' = "backtrack"
    /\ location' = destination
    /\ path' = << >>
    /\ UNCHANGED <<inputs, progression, origin, visited, result, previous>>

\* Expand with graph.get(&next_node)? in place of unwrap_or: a node that is
\* not a key of the graph ends the search with None.
Expand_KeyRequired ==
    /\ pc = "progression"
    /\ \E order \in Orders(DOMAIN progression) :
          LET next == get_next_node(order, progression, visited)
          IN  /\ next # None
              /\ next.val[1] # destination
              /\ selected' = Append(selected, next.val[1])
              /\ IF next.val[1] \in DOMAIN graph
                 THEN /\ \E edges \in Orders(DOMAIN graph[next.val[1]]) :
                            LET st == Relax([progression |-> progression,
                                             origin |-> origin],
                                            next.val[1], next.val[2],
                                            graph[next.val[1]], edges)
                            IN  /\ progression' = st.progression
                                /\ origin' = st.origin
                      /\ visited' = visited \cup {next.val[1]}
                      /\ UNCHANGED <<pc, result>>
                 ELSE /\ pc' = "returned"
                      /\ result' = None
                      /\ UNCHANGED <<progression, origin, visited>>
    /\ UNCHANGED <<inputs, location, path, previous>>

\* next_node != destination: the adjacent nodes are relaxed, next_node is
\* marked visited and the function calls itself.
Expand ==
    /\ pc = "progression"
    /\ \E order \in Orders(DOMAIN progression) :
          LET next == get_next_node(order, progression, visited)
          IN  /\ next # None
              /\ next.val[1] # destination
              /\ \E edges \in Orders(DOMAIN Adjacent(graph, next.val[1])) :
                    LET st == Relax([progression |-> progression,
                                     origin |-> origin],
                                    next.val[1], next.val[2],
                                    Adjacent(graph, next.val[1]), edges)
                    IN  /\ progression' = st.progression
                        /\ origin' = st.origin
              /\ visited' = visited \cup {next.val[1]}
              /\ selected' = Append(selected, next.val[1])
    /\ UNCHANGED <<inputs, pc, location, path, result, previous>>

\* The same call in a build with overflow checks (the debug profile): the
\* first current_progression + cost that overflows panics.  The process
\* ends there and its maps are dropped; the model leaves them as they were.
ExpandPanic ==
    /\ pc = "progression"
    /\ \E order \in Orders(DOMAIN progression) :
          LET next == get_next_node(order, progression, visited)
          IN  /\ next # None
              /\ next.val[1] # destination
              /\ \E node \in DOMAIN Adjacent(graph, next.val[1]) :
                    Overflows(next.val[2], Adjacent(graph, next.val[1])[node])
              /\ selected' = Append(selected, next.val[1])
    /\ pc' = "panicked"
    /\ UNCHANGED <<inputs, progression, origin, visited, location, path,
                   result, previous>>

(***************************************************************************)
(* dijkstra_backtrack_recursive: one call; at the base case                *)
(* dijkstra_backtrack reverses the Vec and dijkstra returns it.            *)
(***************************************************************************)

\* Backtrack without the path.push(source) of the base case.
Backtrack_NoPush ==
    /\ pc = "backtrack"
    /\ IF location = source
       THEN /\ result' = Some(Reverse(path))
            /\ pc' = "returned"
            /\ UNCHANGED <<location, path>>
       ELSE IF location \in DOMAIN origin
       THEN /\ Len(path) < MaxDepth
            /\ path' = Append(path, location)
            /\ location' = origin[location]
            /\ UNCHANGED <<pc, result>>
       ELSE /\ result' = None
            /\ pc' = "returned"
            /\ UNCHANGED <<location, path>>
    /\ UNCHANGED <<inputs, progression, origin, visited, selected, previous>>

Backtrack ==
    /\ pc = "backtrack"
    /\ IF location = source
       THEN /\ path' = Append(path, source)
            /\ result' = Some(Reverse(Append(path, source)))
            /\ pc' = "returned"
            /\ UNCHANGED location
       ELSE IF location \in DOMAIN origin
       THEN /\ Len(path) < MaxDepth
            /\ path' = Append(path, location)
            /\ location' = origin[location]
            /\ UNCHANGED <<pc, result>>
       ELSE /\ result' = None
            /\ pc' = "returned"
            /\ UNCHANGED <<location, path>>
    /\ UNCHANGED <<inputs, progression, origin, visited, selected, previous>>

Next == Exhausted \/ Reached \/ Expand \/ ExpandPanic \/ Backtrack

Spec == Init /\ [][Next]_vars

\* A second invocation of dijkstra on the same input, after the first has
\* returned: dijkstra takes no state over from one call to the next.
Reinvoke ==
    /\ pc = "returned"
    /\ previous = NoRun
    /\ previous' = result
    /\ progression' = Insert(EmptyMap, source, 0)
    /\ origin' = EmptyMap
    /\ visited' = {}
    /\ pc' = "progression"
    /\ location' = source
    /\ path' = << >>
    /\ result' = None
    /\ selected' = << >>
    /\ UNCHANGED inputs

SpecRepeat == Init /\ [][Next \/ Reinvoke]_vars

(***************************************************************************)
(* Reference definitions of the claims: paths of a graph by exhaustive     *)
(* search, with sums that do not wrap.                                     *)
(***************************************************************************)

\* Every sequence of one to four nodes.
Walks == UNION {[1..k -> Nodes] : k \in 1..Cardinality(Nodes)}

IsPath(g, p) ==
    \A i \in 1..(Len(p) - 1) : p[i + 1] \in DOMAIN Adjacent(g, p[i])

RECURSIVE PathWeight(_, _)
PathWeight(g, p) ==
    IF Len(p) <= 1 THEN 0
    ELSE Adjacent(g, p[1])[p[2]] + PathWeight(g, Tail(p))

\* The paths of g from s to d that repeat no node.
SimplePaths(g, s, d) ==
    {p \in Walks : /\ p[1] = s
                   /\ p[Len(p)] = d
                   /\ \A i, j \in DOMAIN p : p[i] = p[j] => i = j
                   /\ IsPath(g, p)}

Reachable(g, s, d) == SimplePaths(g, s, d) # {}

ReachableNodes(g, s) == {d \in Nodes : Reachable(g, s, d)}

\* The true shortest distance (costs are not negative, so a shortest walk
\* repeats no node).
Distance(g, s, d) ==
    LET ws == {PathWeight(g, p) : p \in SimplePaths(g, s, d)}
    IN  CHOOSE w \in ws : \A x \in ws : w <= x

\* Every sum of a distance and a cost that a search from s can form fits the
\* cost type.
SumsInRange(g, s) ==
    \A d \in ReachableNodes(g, s) : \A p \in SimplePaths(g, s, d) :
        \A n \in DOMAIN Adjacent(g, d) :
            PathWeight(g, p) + Adjacent(g, d)[n] <= MaxU32

Returned == pc = "returned"
Found == pc = "returned" /\ result # None
NotFound == pc = "returned" /\ result = None

\* The search is still running and can take a step, or it has returned.
Running == pc \in {"progression", "backtrack"} /\ ENABLED Next

(***************************************************************************)
(* C1  Minimality.  Whenever dijkstra returns a path on a graph whose sums *)
(* stay within the range of the cost type, the path is a path of the graph *)
(* and the sum of the costs of its edges is the true shortest distance     *)
(* from source to destination found by exhaustive search, whichever node   *)
(* won each tie; on A->B 5, A->C 1, C->B 1 the search from A to B returns  *)
(* [A, C, B], of weight 2.                                                 *)
(***************************************************************************)
C1_Minimality ==
    /\ Found /\ SumsInRange(graph, source) =>
          /\ IsPath(graph, result.val)
          /\ PathWeight(graph, result.val)
                = Distance(graph, source, destination)
    /\ Returned /\ graph = TieGraph /\ source = "A" /\ destination = "B" =>
          /\ result = Some(<<"A", "C", "B">>)
          /\ PathWeight(graph, result.val) = 2

C1_Witness ==
    /\ graph = TieGraph /\ source = "A" /\ destination = "B"
    /\ result = Some(<<"A", "C", "B">>)
    /\ pc = "returned"

(***************************************************************************)
(* C2  Validity.  Whenever dijkstra returns a path, its first element is   *)
(* the source, its last element is the destination, every consecutive pair *)
(* is an edge of the graph, and the costs of these edges add up to the     *)
(* distance recorded for the destination.                                  *)
(***************************************************************************)
C2_Validity ==
    Found =>
        /\ result.val[1] = source
        /\ result.val[Len(result.val)] = destination
        /\ IsPath(graph, result.val)
        /\ progression[destination] = PathWeight(graph, result.val)

\* C2 on the graphs whose sums stay within the range of the cost type.
C2_ValidityInRange == C2_Validity \/ ~SumsInRange(graph, source)

(***************************************************************************)
(* C3  Found if and only if reachable.  Every search returns; it returns a *)
(* path exactly when the graph has a directed path from source to          *)
(* destination (the empty one when they are equal) and not-found exactly   *)
(* when it has none, so a search to or from an isolated node returns       *)
(* not-found.                                                              *)
(***************************************************************************)
C3_FoundIffReachable ==
    /\ Returned \/ Running
    /\ Returned => (result # None <=> Reachable(graph, source, destination))

\* C3 on the graphs whose sums stay within the range of the cost type.
C3_FoundIffReachableInRange ==
    C3_FoundIffReachable \/ ~SumsInRange(graph, source)

(***************************************************************************)
(* C4  Reflexivity.  When source = destination the search returns exactly  *)
(* [source], whatever the graph holds: the first selection picks the       *)
(* source, no edge is relaxed and nothing is marked visited, and the first *)
(* call of the backtracking is its base case.                              *)
(***************************************************************************)
C4_Reflexivity ==
    source = destination =>
        /\ Returned \/ Running
        /\ selected = IF pc = "progression" THEN << >> ELSE <<source>>
        /\ progression = Insert(EmptyMap, source, 0)
        /\ origin = EmptyMap
        /\ visited = {}
        /\ pc = "backtrack" => location = source /\ path = << >>
        /\ Returned => result = Some(<<source>>)

C4_Witness ==
    /\ source = destination
    /\ source \in DOMAIN Adjacent(graph, source)
    /\ DOMAIN Adjacent(graph, source) # {source}
    /\ result = Some(<<source>>)
    /\ pc = "returned"

(***************************************************************************)
(* C5  Termination.  The progression loop ends in success or in            *)
(* unreachable: while it runs a call is possible, every call that does not *)
(* end it has added to the visited set one node that was not in it (the    *)
(* visited nodes are the nodes selected so far, each selected once), and   *)
(* the number of selections is at most the number of nodes reachable from  *)
(* the source.                                                             *)
(***************************************************************************)
C5_Termination ==
    LET succeeded == pc = "backtrack" \/ Found
        expanded == SubSeq(selected, 1,
                           Len(selected) - (IF succeeded THEN 1 ELSE 0))
    IN  /\ Returned \/ Running
        /\ visited = {expanded[i] : i \in DOMAIN expanded}
        /\ Cardinality(visited) = Len(expanded)
        /\ Len(selected) <= Cardinality(ReachableNodes(graph, source))

\* C5 on the graphs whose sums stay within the range of the cost type.
C5_TerminationInRange == C5_Termination \/ ~SumsInRange(graph, source)

(***************************************************************************)
(* C6  Determinism of the outcome.  Two invocations on the same graph,     *)
(* source and destination that both return either both return not-found or *)
(* both return paths of the same total weight, and the two paths differ    *)
(* only when the graph has several paths of minimal weight.                *)
(***************************************************************************)
C6_Determinism ==
    previous # NoRun /\ Returned =>
        \/ previous = None /\ result = None
        \/ /\ previous # None /\ result # None
           /\ PathWeight(graph, previous.val) = PathWeight(graph, result.val)
           /\ previous.val # result.val =>
                 Cardinality({p \in SimplePaths(graph, source, destination) :
                     PathWeight(graph, p)
                        = Distance(graph, source, destination)}) > 1

\* C6 on the graphs whose sums stay within the range of the cost type.
C6_DeterminismInRange == C6_Determinism \/ ~SumsInRange(graph, source)

(***************************************************************************)
(* C7  A node that is not a key of the graph has no outgoing edges and     *)
(* causes no failure: the call that selects one (other than the            *)
(* destination) changes neither map, marks the node visited and goes on    *)
(* with the loop; and a search whose source has no outgoing edge and is    *)
(* not the destination ends with not-found after one selection.            *)
(***************************************************************************)
C7_NonKeyNode ==
    [][/\ (/\ pc = "progression"
           /\ Len(selected') = Len(selected) + 1
           /\ selected'[Len(selected')] \notin DOMAIN graph
           /\ selected'[Len(selected')] # destination)
          => /\ pc' = "progression"
             /\ progression' = progression
             /\ origin' = origin
             /\ visited' = visited \cup {selected'[Len(selected')]}
       /\ (/\ DOMAIN Adjacent(graph, source) = {}
           /\ source # destination
           /\ pc' # "progression")
          => /\ pc' = "returned"
             /\ result' = None
             /\ selected' = <<source>>]_vars

C7_Witness ==
    /\ pc = "progression"
    /\ \E i \in 2..Len(selected) :
          selected[i] \notin DOMAIN graph /\ selected[i] \in visited

(***************************************************************************)
(* C8  On the graph of main, A->B, B->C, C->D, D->A with every cost 1, the *)
(* search from A to D returns, and returns exactly [A, B, C, D], of total  *)
(* weight 3.                                                               *)
(***************************************************************************)
C8_CycleForward ==
    graph = CycleGraph /\ source = "A" /\ destination = "D" =>
        /\ Returned \/ Running
        /\ Returned => /\ result = Some(<<"A", "B", "C", "D">>)
                       /\ PathWeight(graph, result.val) = 3

C8_Witness ==
    /\ graph = CycleGraph /\ source = "A" /\ destination = "D"
    /\ result = Some(<<"A", "B", "C", "D">>)
    /\ pc = "returned"

(***************************************************************************)
(* C9  On the same graph the search from D to A returns, and returns       *)
(* [D, A], of total weight 1.                                              *)
(***************************************************************************)
C9_CycleBackward ==
    graph = CycleGraph /\ source = "D" /\ destination = "A" =>
        /\ Returned \/ Running
        /\ Returned => /\ result = Some(<<"D", "A">>)
                       /\ PathWeight(graph, result.val) = 1

C9_Witness ==
    /\ graph = CycleGraph /\ source = "D" /\ destination = "A"
    /\ result = Some(<<"D", "A">>)
    /\ pc = "returned"

(***************************************************************************)
(* C10  Node selection.  In every reachable state and for every iteration  *)
(* order of the distance map, get_next_node returns None exactly when      *)
(* every node of the map is visited, and otherwise a pair (n, d) with n in *)
(* the map and not visited, d the distance of n, and d at most the         *)
(* distance of every unvisited node of the map; any unvisited node of      *)
(* least distance may be the one returned.                                 *)
(***************************************************************************)
C10_NodeSelection ==
    LET left == DOMAIN progression \ visited
        least == {n \in left : \A m \in left : progression[n] <= progression[m]}
        answers == {get_next_node(order, progression, visited) :
                        order \in Orders(DOMAIN progression)}
    IN  /\ \A r \in answers :
              /\ r = None <=> left = {}
              /\ r # None =>
                    /\ r.val[1] \in left
                    /\ r.val[2] = progression[r.val[1]]
                    /\ \A m \in left : r.val[2] <= progression[m]
        /\ \A n \in least : Some(<<n, progression[n]>>) \in answers

C10_Witness ==
    /\ pc = "progression"
    /\ visited # {}
    /\ \E n, m \in DOMAIN progression \ visited :
          progression[n] < progression[m]
    /\ \E n, m \in DOMAIN progression \ visited :
          n # m /\ progression[n] = progression[m]
          /\ \A k \in DOMAIN progression \ visited :
                progression[n] <= progression[k]

\* Maps m1 and m2 agree on key n: both lack it or both hold the same value.
SameEntry(m1, m2, n) ==
    /\ n \in DOMAIN m1 <=> n \in DOMAIN m2
    /\ n \in DOMAIN m1 => m1[n] = m2[n]

\* The node the step from this state to the next selected.
NewlySelected == selected'[Len(selected')]

\* The step is a call that expands a node: it marks it visited.
Expands == pc = "progression" /\ visited' # visited

C12_Finality ==
    [][\A n \in visited :
          /\ n \in visited'
          /\ selected' # selected => NewlySelected # n
          /\ SameEntry(progression, progression', n)
          /\ SameEntry(origin, origin', n)]_vars

\* C12 on the graphs whose sums stay within the range of the cost type.
C12_FinalityInRange ==
    [][(\A n \in visited :
          /\ n \in visited'
          /\ selected' # selected => NewlySelected # n
          /\ SameEntry(progression, progression', n)
          /\ SameEntry(origin, origin', n))
       \/ ~SumsInRange(graph, source)]_vars

\* The paths from s to n whose intermediate nodes are all in vis.
ViaVisited(g, s, n, vis) ==
    {p \in SimplePaths(g, s, n) : \A i \in 2..(Len(p) - 1) : p[i] \in vis}

\* Every distance is the least weight of a path through visited nodes, and
\* the distance of every node selected so far is the true distance.
DistanceInvariant ==
    /\ \A n \in DOMAIN progression :
          LET ws == {PathWeight(graph, p) :
                        p \in ViaVisited(graph, source, n, visited)}
          IN  progression[n] \in ws /\ \A w \in ws : progression[n] <= w
    /\ \A i \in DOMAIN selected :
          /\ Reachable(graph, source, selected[i])
          /\ progression[selected[i]]
                = Distance(graph, source, selected[i])

(***************************************************************************)
(* C13  Distance-map invariant.  At every iteration boundary the distance  *)
(* of every node of the map is the length of the shortest path from the    *)
(* source whose intermediate nodes are all visited; no step increases the  *)
(* distance of a node; and from the moment a node is selected its distance *)
(* is the true shortest distance from the source.                          *)
(***************************************************************************)
C13_DistanceMap ==
    [][/\ DistanceInvariant
       /\ DistanceInvariant'
       /\ \A n \in DOMAIN progression :
             n \in DOMAIN progression' /\ progression'[n] <= progression[n]]_vars

\* C13 on the graphs whose sums stay within the range of the cost type.
C13_DistanceMapInRange ==
    [][(/\ DistanceInvariant
        /\ DistanceInvariant'
        /\ \A n \in DOMAIN progression :
              n \in DOMAIN progression' /\ progression'[n] <= progression[n])
       \/ ~SumsInRange(graph, source)]_vars

(***************************************************************************)
(* C14  Origin-map domain.  In every reachable state the source has        *)
(* distance 0 and no origin entry, also when edges (self-loops, edges of   *)
(* cost 0) point to it, and every other node has an origin entry exactly   *)
(* when it has a distance: the keys of the origin map are the keys of the  *)
(* distance map without the source.                                        *)
(***************************************************************************)
C14_OriginDomain ==
    /\ source \in DOMAIN progression
    /\ progression[source] = 0
    /\ source \notin DOMAIN origin
    /\ DOMAIN origin = DOMAIN progression \ {source}

\* A visited node with an edge of cost 0 back to the source, which has a
\* self-loop too.
C14_Witness ==
    /\ source \in DOMAIN Adjacent(graph, source)
    /\ \E n \in visited \ {source} :
          /\ source \in DOMAIN Adjacent(graph, n)
          /\ Adjacent(graph, n)[source] = 0
          /\ n \in DOMAIN origin

\* Following the entries of map m from node n reaches s, no node met twice.
RECURSIVE ReachesSource(_, _, _, _)
ReachesSource(m, s, n, seen) ==
    IF n = s THEN TRUE
    ELSE IF n \in seen \/ n \notin DOMAIN m THEN FALSE
    ELSE ReachesSource(m, s, m[n], seen \cup {n})

\* The elements of a sequence.
Range(q) == {q[i] : i \in DOMAIN q}

\* dijkstra_progression has returned Some(destination).
Succeeded == selected # << >> /\ selected[Len(selected)] = destination

(***************************************************************************)
(* C15  Origin-map acyclicity.  In every reachable state, following the    *)
(* origin entries from any node that has one reaches the source after      *)
(* finitely many steps without meeting a node twice: the origin relation   *)
(* has no cycle (costs are never negative; cost 0, cycles of cost 0 and    *)
(* self-loops included).                                                   *)
(***************************************************************************)
C15_OriginAcyclic ==
    \A n \in DOMAIN origin : ReachesSource(origin, source, n, {})

\* C15 on the graphs whose sums stay within the range of the cost type.
C15_OriginAcyclicInRange == C15_OriginAcyclic \/ ~SumsInRange(graph, source)

(***************************************************************************)
(* C16  Backtracking never fails after a successful progression.  In every *)
(* state in which dijkstra_progression has returned success, the walk back *)
(* from the current location finds an origin entry at every node other     *)
(* than the source and reaches the source, a call of the backtracking is   *)
(* possible until dijkstra has returned, and it returns a path; dijkstra   *)
(* returns not-found only when the progression found no node to select.    *)
(***************************************************************************)
C16_BacktrackSucceeds ==
    /\ pc # "panicked" /\ Succeeded =>
          /\ Returned \/ Running
          /\ pc = "backtrack" =>
                ReachesSource(origin, source, location, Range(path))
          /\ Returned => result # None
    /\ NotFound => ~Succeeded /\ path = << >>

\* C16 on the graphs whose sums stay within the range of the cost type.
C16_BacktrackSucceedsInRange ==
    C16_BacktrackSucceeds \/ ~SumsInRange(graph, source)

(***************************************************************************)
(* dijkstra_backtrack on its own: any origin map, source and destination.  *)
(***************************************************************************)

\* Every HashMap<&str, &str> over the nodes.
OriginMaps == UNION {[S -> Nodes] : S \in SUBSET Nodes}

InitBacktrack ==
    /\ origin \in OriginMaps
    /\ source \in Nodes
    /\ destination \in Nodes
    /\ location = destination
    /\ path = << >>
    /\ pc = "backtrack"
    /\ result = None
    /\ graph = EmptyMap
    /\ progression = EmptyMap
    /\ visited = {}
    /\ selected = << >>
    /\ previous = NoRun

SpecBacktrack == InitBacktrack /\ [][Backtrack]_vars

(***************************************************************************)
(* C17  The path reconstructor is input-safe.  For every origin map,       *)
(* source and destination dijkstra_backtrack terminates: no call is made   *)
(* with a location that an earlier call has pushed (the call depends on    *)
(* the location alone, so it would repeat for ever), and a call is         *)
(* possible until it has returned.  It returns None when the walk back     *)
(* from the destination meets a node other than the source without origin  *)
(* entry, and otherwise the nodes of the walk in the order from source to  *)
(* destination.                                                            *)
(***************************************************************************)
C17_InputSafe ==
    /\ Returned \/ Running
    /\ pc = "backtrack" => location \notin Range(path)
    /\ Returned =>
          IF ReachesSource(origin, source, destination, {})
          THEN /\ result # None
               /\ result.val[1] = source
               /\ result.val[Len(result.val)] = destination
               /\ \A i \in 1..(Len(result.val) - 1) :
                     /\ result.val[i + 1] \in DOMAIN origin
                     /\ origin[result.val[i + 1]] = result.val[i]
          ELSE result = None

(***************************************************************************)
(* C18  No abort on any well-formed input.  No step ends the search with a *)
(* panic, and in every step that expands a node of distance ds every sum   *)
(* ds + cost stays within the range of the cost type, so that a distance   *)
(* the step writes is that exact sum.                                      *)
(***************************************************************************)
C18_NoAbort ==
    [][/\ pc' # "panicked"
       /\ Expands =>
             LET s == NewlySelected
                 adj == Adjacent(graph, s)
             IN  \A n \in DOMAIN adj :
                    /\ progression[s] + adj[n] <= MaxU32
                    /\ ~SameEntry(progression, progression', n) =>
                          progression'[n] = progression[s] + adj[n]]_vars

(***************************************************************************)
(* C19  Destination finalized on success.  In the step in which the        *)
(* progression returns success the destination has a distance, which is    *)
(* its true shortest distance, it is a member of the visited set, and the  *)
(* step changes neither the distance map nor the origin map.               *)
(***************************************************************************)
C19_DestinationFinal ==
    [][pc = "progression" /\ pc' = "backtrack" =>
          /\ destination \in DOMAIN progression'
          /\ Reachable(graph, source, destination)
          /\ progression'[destination] = Distance(graph, source, destination)
          /\ destination \in visited'
          /\ progression' = progression
          /\ origin' = origin]_vars

\* C19 without the membership in the visited set, on the graphs whose sums
\* stay within the range of the cost type.
C19_DestinationSelectedInRange ==
    [][pc = "progression" /\ pc' = "backtrack" =>
          \/ /\ destination \in DOMAIN progression'
             /\ Reachable(graph, source, destination)
             /\ progression'[destination]
                   = Distance(graph, source, destination)
             /\ destination \notin visited'
             /\ NewlySelected = destination
             /\ progression' = progression
             /\ origin' = origin
          \/ ~SumsInRange(graph, source)]_vars

(***************************************************************************)
(* C20  Origin/distance consistency.  In every reachable state, for every  *)
(* node v with origin entry u: (u, v) is an edge of the graph, u is        *)
(* visited, and the distance of v is the distance of u plus the cost of    *)
(* the edge; a node has an origin entry exactly when it has a distance and *)
(* is not the source (the two are written together).                       *)
(***************************************************************************)
C20_OriginConsistent ==
    /\ DOMAIN origin = DOMAIN progression \ {source}
    /\ \A v \in DOMAIN origin :
          LET u == origin[v]
          IN  /\ v \in DOMAIN Adjacent(graph, u)
              /\ u \in visited
              /\ u \in DOMAIN progression
              /\ progression[v] = progression[u] + Adjacent(graph, u)[v]

\* C20 on the graphs whose sums stay within the range of the cost type.
C20_OriginConsistentInRange ==
    C20_OriginConsistent \/ ~SumsInRange(graph, source)

=============================================================================
